---- MODULE Spec2Model ----
(***************************************************************************)
(* Model of the CleanDeadCode VS Code extension (src/src/extension.ts).    *)
(*                                                                         *)
(* A document is a sequence of tokens; a token stands for one character    *)
(* of the source text, so an offset of the code is an index into the       *)
(* sequence (1-based), a range is [start, end) and "getEnd() + 1" is one   *)
(* token further.  An identifier is one token, after as many "_" tokens as *)
(* its name has leading underscores, so prefixing a name with "_" makes    *)
(* the text one longer.  ts.createSourceFile is modelled by a scanner over *)
(* the token sequence for the statement forms below, with the error        *)
(* recovery of the TypeScript parser for the malformed imports the         *)
(* extension itself can produce.                                           *)
(*                                                                         *)
(*   import 'm';                 import D from 'm';                        *)
(*   import { a, p as b } from 'm';     import D, { a } from 'm';          *)
(*   import * as X from 'm';     import D, * as X from 'm';                *)
(*   [export] const x = e, y = e;                                          *)
(*   [export [default]] function f(p, q) { ... }                           *)
(*   export { f, g };            export default f;                         *)
(*   e;                          with e an identifier, 0 or <div/>         *)
(*   // line comments                                                      *)
(***************************************************************************)
EXTENDS Naturals, Sequences, FiniteSets, TLC

VARIABLES
  text,                     \* the document's text (document.getText())
  prevText,                 \* the text the last operation analysed
  lastOp,                   \* "none", "imports", "variables", "save",
                            \* "cleanAll.removeUnusedImports" or
                            \* "cleanAll.handleUnusedVariables"
  lastPlan,                 \* the edit spans the last operation planned
  lastResult,               \* "none", "notJsTs", "null", "error", "applied"
                            \* or "rejected"
  unusedVariableAction,     \* cleanCode.unusedVariableAction
  removeTrailingParameters, \* cleanCode.removeTrailingParameters
  nOps,                     \* operations run so far
  extname,                  \* path.extname(document.fileName)
  autoRemoveUnusedImports,  \* cleanCode.autoRemoveUnusedImports
  autoHandleUnusedVariables,\* cleanCode.autoHandleUnusedVariables
  pc,                       \* statements of a running clean-all that are
                            \* done (0: no clean-all is running)
  importsResult,            \* how removeUnusedImports ended in the last
                            \* clean-all
  queued                    \* what the last save handed to e.waitUntil

vars == <<text, prevText, lastOp, lastPlan, lastResult,
          unusedVariableAction, removeTrailingParameters, nOps, extname,
          autoRemoveUnusedImports, autoHandleUnusedVariables, pc,
          importsResult, queued>>

\* What the commands and the save hook leave alone.
settings == <<unusedVariableAction, removeTrailingParameters, extname,
              autoRemoveUnusedImports, autoHandleUnusedVariables>>

-----------------------------------------------------------------------------
(* Tokens *)

EOF == "<eof>"
NL == "\n"
SP == " "
WhiteSpace == {NL, SP}
LineComment == {"//", "// TODO: Unused variable", "// TODO: Unused function"}
StringLiterals == {"'m1'", "'m2'", "'m3'", "'m4'"}
JsxTokens == {"<div/>"}
Punctuation == {"{", "}", "(", ")", ",", ";", "=", "*"}
ReservedWords == {"import", "export", "default", "const", "function"}

\* ts.isIdentifier for a token: "from" and "as" are contextual keywords and
\* scan as identifiers.
IsIdentifierName(tok) ==
  tok \notin (WhiteSpace \cup LineComment \cup StringLiterals \cup JsxTokens
              \cup Punctuation \cup ReservedWords \cup {EOF, "0"})

At(t, i) == IF i >= 1 /\ i <= Len(t) THEN t[i] ELSE EOF

Range(seq) == {seq[k] : k \in 1..Len(seq)}

\* The identifier that starts at offset i: its text and the offset after it.
RECURSIVE IdentifierText(_, _)
IdentifierText(t, i) ==
  IF At(t, i) = "_" /\ IsIdentifierName(At(t, i + 1))
  THEN "_" \o IdentifierText(t, i + 1)
  ELSE t[i]

RECURSIVE IdentifierEnd(_, _)
IdentifierEnd(t, i) ==
  IF At(t, i) = "_" /\ IsIdentifierName(At(t, i + 1))
  THEN IdentifierEnd(t, i + 1)
  ELSE i + 1

\* name.text.startsWith("_"), for the identifier at offset i.
StartsWithUnderscore(t, i) == At(t, i) = "_"

RECURSIVE SkipLine(_, _)
SkipLine(t, i) ==
  IF i > Len(t) \/ t[i] = NL THEN i ELSE SkipLine(t, i + 1)

\* The scanner's trivia: the first offset at or after i that is neither
\* white space nor inside a line comment (node.getStart() of what follows).
RECURSIVE Skip(_, _)
Skip(t, i) ==
  IF i > Len(t) THEN Len(t) + 1
  ELSE IF t[i] \in WhiteSpace THEN Skip(t, i + 1)
  ELSE IF t[i] \in LineComment THEN Skip(t, SkipLine(t, i))
  ELSE i

\* parseSemicolon: a ";" is taken wherever it follows, also on a later line.
AfterSemicolon(t, i) ==
  LET j == Skip(t, i) IN IF At(t, j) = ";" THEN j + 1 ELSE i

-----------------------------------------------------------------------------
(* ts.createSourceFile: import declarations *)

\* The specifiers of a named import or export list, from after its "{".
RECURSIVE ParseSpecifiers(_, _, _)
ParseSpecifiers(t, j, acc) ==
  LET a == Skip(t, j)
      tok == At(t, a)
  IN IF tok = "}" THEN [elements |-> acc, end |-> a + 1]
     ELSE IF ~IsIdentifierName(tok) THEN [elements |-> acc, end |-> a]
     ELSE LET b == Skip(t, IdentifierEnd(t, a))
              c == Skip(t, b + 1)
              first == IdentifierText(t, a)
          IN IF At(t, b) = "as" /\ IsIdentifierName(At(t, c))
             THEN LET d == Skip(t, IdentifierEnd(t, c))
                  IN ParseSpecifiers(t, IF At(t, d) = "," THEN d + 1 ELSE d,
                       Append(acc, [name |-> IdentifierText(t, c),
                                    propertyName |-> first]))
             ELSE ParseSpecifiers(t, IF At(t, b) = "," THEN b + 1 ELSE b,
                       Append(acc, [name |-> first, propertyName |-> ""]))

NoBindings ==
  [kind |-> "none", start |-> 0, end |-> 0, elements |-> <<>>, name |-> ""]

\* parseNamespaceImport / parseNamedImports, from offset j after the comma or
\* after "import".  A list whose "{" is missing is an empty NamedImports of
\* width zero (createMissingList).
ParseNamedBindings(t, j) ==
  LET a == Skip(t, j)
  IN IF At(t, a) = "*"
     THEN LET b == Skip(t, a + 1)
              c == IF At(t, b) = "as" THEN Skip(t, b + 1) ELSE b
              named == IsIdentifierName(At(t, c))
          IN [kind |-> "namespace", start |-> a,
              end |-> IF named THEN IdentifierEnd(t, c) ELSE a + 1,
              elements |-> <<>>,
              name |-> IF named THEN IdentifierText(t, c) ELSE ""]
     ELSE IF At(t, a) = "{"
     THEN LET r == ParseSpecifiers(t, a + 1, <<>>)
          IN [kind |-> "named", start |-> a, end |-> r.end,
              elements |-> r.elements, name |-> ""]
     ELSE [kind |-> "named", start |-> j, end |-> j, elements |-> <<>>,
           name |-> ""]

\* The rest of an ImportDeclaration after its clause: "from", the module
\* specifier and the semicolon.
ImportTail(t, start, afterClause, hasClause, defStart, nb) ==
  LET a == Skip(t, afterClause)
      b == IF hasClause /\ At(t, a) = "from" THEN Skip(t, a + 1) ELSE a
      hasModule == At(t, b) \in StringLiterals
      last == IF hasModule THEN b + 1 ELSE afterClause
      end == AfterSemicolon(t, last)
  IN [isImportDeclaration |-> TRUE, start |-> start, end |-> end,
      hasClause |-> hasClause,
      defName |-> IF defStart = 0 THEN "" ELSE IdentifierText(t, defStart),
      defStart |-> defStart,
      defEnd |-> IF defStart = 0 THEN 0 ELSE IdentifierEnd(t, defStart),
      hasDefault |-> defStart # 0,
      nb |-> nb,
      clauseEnd |-> afterClause,
      moduleSpecifier |-> IF hasModule THEN t[b] ELSE "",
      names |-> {}, next |-> end]

\* parseImportDeclarationOrImportEqualsDeclaration, at the "import" token.
ParseImport(t, i) ==
  LET j1 == Skip(t, i + 1)
      tok1 == At(t, j1)
      e1 == IdentifierEnd(t, j1)
      j2 == Skip(t, e1)
      tok2 == At(t, j2)
  IN IF tok1 \in StringLiterals
     THEN ImportTail(t, i, i + 1, FALSE, 0, NoBindings)
     ELSE IF IsIdentifierName(tok1) /\ tok2 = ","
     THEN LET nb == ParseNamedBindings(t, j2 + 1)
          IN ImportTail(t, i, nb.end, TRUE, j1, nb)
     ELSE IF IsIdentifierName(tok1) /\ tok2 = "from"
     THEN ImportTail(t, i, e1, TRUE, j1, NoBindings)
     ELSE IF IsIdentifierName(tok1)
     THEN \* "import x <other>": an ImportEqualsDeclaration with a missing "="
          \* whose name and module reference are identifier nodes.
          LET k == IF tok2 = "=" THEN Skip(t, j2 + 1) ELSE j2
              ref == IsIdentifierName(At(t, k))
              last == IF ref THEN IdentifierEnd(t, k)
                      ELSE IF tok2 = "=" THEN j2 + 1 ELSE e1
              end == AfterSemicolon(t, last)
          IN [isImportDeclaration |-> FALSE, start |-> i, end |-> end,
              hasClause |-> FALSE, defName |-> "", defStart |-> 0,
              defEnd |-> 0, hasDefault |-> FALSE, nb |-> NoBindings,
              clauseEnd |-> 0, moduleSpecifier |-> "",
              names |-> {IdentifierText(t, j1),
                         IF ref THEN IdentifierText(t, k) ELSE ""},
              next |-> end]
     ELSE IF tok1 \in {"*", "{"}
     THEN LET nb == ParseNamedBindings(t, i + 1)
          IN ImportTail(t, i, nb.end, TRUE, 0, nb)
     ELSE ImportTail(t, i, i + 1, FALSE, 0, NoBindings)

\* Every identifier node inside an import declaration.
RECURSIVE SpecifierNames(_)
SpecifierNames(elements) ==
  IF elements = <<>> THEN {}
  ELSE {Head(elements).name}
       \cup (IF Head(elements).propertyName = "" THEN {}
             ELSE {Head(elements).propertyName})
       \cup SpecifierNames(Tail(elements))

ImportIdentifiers(imp) ==
  (IF imp.hasDefault THEN {imp.defName} ELSE {})
  \cup (IF imp.nb.kind = "namespace" THEN {imp.nb.name} ELSE {})
  \cup SpecifierNames(imp.nb.elements)

-----------------------------------------------------------------------------
(* ts.createSourceFile: statements *)

\* An expression is one token: an identifier, 0, a string or <div/>.
IsExpression(tok) ==
  IsIdentifierName(tok) \/ tok \in (StringLiterals \cup JsxTokens \cup {"0"})

\* The identifier nodes of the expression at offset i (the tag name of a
\* JSX element is an identifier), and the offset after the expression.
ExpressionNames(t, i) ==
  IF t[i] \in JsxTokens THEN {"div"}
  ELSE IF IsIdentifierName(t[i]) THEN {IdentifierText(t, i)} ELSE {}

ExpressionEnd(t, i) ==
  IF IsIdentifierName(t[i]) THEN IdentifierEnd(t, i) ELSE i + 1

\* The declarators of a variable declaration list, from offset j.
RECURSIVE ParseDeclarators(_, _, _, _, _)
ParseDeclarators(t, j, acc, uses, jsx) ==
  LET a == Skip(t, j)
  IN IF ~IsIdentifierName(At(t, a))
     THEN [decls |-> acc, uses |-> uses, jsx |-> jsx, end |-> j]
     ELSE LET b == Skip(t, IdentifierEnd(t, a))
              c == Skip(t, b + 1)
              init == At(t, b) = "=" /\ IsExpression(At(t, c))
              declEnd == IF init THEN ExpressionEnd(t, c)
                         ELSE IF At(t, b) = "=" THEN b + 1
                         ELSE IdentifierEnd(t, a)
              d == Skip(t, declEnd)
              acc2 == Append(acc, [name |-> IdentifierText(t, a), start |-> a,
                                   end |-> declEnd,
                                   underscore |-> StartsWithUnderscore(t, a)])
              uses2 == IF init THEN uses \cup ExpressionNames(t, c) ELSE uses
              jsx2 == jsx \/ (init /\ t[c] \in JsxTokens)
          IN IF At(t, d) = ","
             THEN ParseDeclarators(t, d + 1, acc2, uses2, jsx2)
             ELSE [decls |-> acc2, uses |-> uses2, jsx |-> jsx2, end |-> declEnd]

\* The parameters of a function, from after its "(".
RECURSIVE ParseParameters(_, _, _)
ParseParameters(t, j, acc) ==
  LET a == Skip(t, j)
      b == Skip(t, IdentifierEnd(t, a))
  IN IF At(t, a) = ")" THEN [params |-> acc, end |-> a + 1]
     ELSE IF ~IsIdentifierName(At(t, a)) THEN [params |-> acc, end |-> a]
     ELSE ParseParameters(t, IF At(t, b) = "," THEN b + 1 ELSE b,
            Append(acc, [name |-> IdentifierText(t, a), start |-> a,
                         end |-> IdentifierEnd(t, a),
                         underscore |-> StartsWithUnderscore(t, a)]))

\* The syntax tree, as the tables the extension's visitors read.
EmptyTree ==
  [imports |-> <<>>,    \* the top-level ImportDeclaration nodes
   used |-> {},         \* identifier nodes outside top-level imports that
                        \* are no declaration name: their texts
   vars |-> <<>>,       \* VariableDeclaration nodes, in document order
   funcs |-> <<>>,      \* FunctionDeclaration nodes, in document order
   exportNames |-> {},  \* names of ExportSpecifiers, exported functions and
                        \* ExportAssignment expressions
   stack |-> <<>>]      \* the functions whose body is open

Enclosing(P) == IF P.stack = <<>> THEN 0 ELSE P.stack[Len(P.stack)]

\* Every function whose body is open contains a JSX element.
MarkJsx(P, jsx) ==
  IF ~jsx THEN P
  ELSE [P EXCEPT !.funcs =
          [k \in 1..Len(P.funcs) |->
             IF \E s \in 1..Len(P.stack) : P.stack[s] = k
             THEN [P.funcs[k] EXCEPT !.hasJsx = TRUE] ELSE P.funcs[k]]]

\* [export] const d1, d2 ... ;   start is the offset of the first modifier.
DeclarationNodes(decls, start, end, exported, fn) ==
  [k \in 1..Len(decls) |->
     [name |-> decls[k].name, start |-> decls[k].start, end |-> decls[k].end,
      underscore |-> decls[k].underscore, stmtStart |-> start,
      stmtEnd |-> end, exported |-> exported, fn |-> fn]]

AddVariableStatement(r, start, end, exported, P) ==
  [tree |-> MarkJsx([P EXCEPT
                       !.vars = @ \o DeclarationNodes(r.decls, start, end,
                                                      exported, Enclosing(P)),
                       !.used = @ \cup r.uses],
                    r.jsx),
   next |-> end]

EndVariableStatement(t, r, start, exported, P) ==
  AddVariableStatement(r, start, AfterSemicolon(t, r.end), exported, P)

VariableStatement(t, start, afterConst, exported, P) ==
  EndVariableStatement(t, ParseDeclarators(t, afterConst, <<>>, {}, FALSE),
                       start, exported, P)

\* [export [default]] function f(p, q) {    The body's statements follow.
FunctionHeader(t, start, afterFunction, exported, P) ==
  LET n == Skip(t, afterFunction)
      named == IsIdentifierName(At(t, n))
      lp == Skip(t, IF named THEN IdentifierEnd(t, n) ELSE afterFunction)
      ps == IF At(t, lp) = "(" THEN ParseParameters(t, lp + 1, <<>>)
            ELSE [params |-> <<>>, end |-> lp]
      lb == Skip(t, ps.end)
      hasBody == At(t, lb) = "{"
      name == IF named THEN IdentifierText(t, n) ELSE ""
      node == [name |-> name, underscore |-> StartsWithUnderscore(t, n),
               start |-> start,
               end |-> IF hasBody THEN 0 ELSE ps.end,
               exported |-> exported, params |-> ps.params,
               hasJsx |-> FALSE, parent |-> Enclosing(P),
               bodyStart |-> IF hasBody THEN lb ELSE 0]
      idx == Len(P.funcs) + 1
      P2 == [P EXCEPT !.funcs = Append(@, node),
                      !.exportNames = IF exported /\ named THEN @ \cup {name}
                                      ELSE @,
                      !.stack = IF hasBody THEN Append(@, idx) ELSE @]
  IN [tree |-> P2, next |-> IF hasBody THEN lb + 1 ELSE ps.end]

\* The "}" that ends the innermost open function body.
CloseFunction(a, P) ==
  IF P.stack = <<>> THEN P
  ELSE LET k == P.stack[Len(P.stack)]
       IN [P EXCEPT !.funcs[k].end = a + 1,
                    !.stack = SubSeq(@, 1, Len(@) - 1)]

\* At the end of the file every open function ends there.
RECURSIVE CloseAll(_, _)
CloseAll(n, P) ==
  IF P.stack = <<>> THEN P ELSE CloseAll(n, CloseFunction(n, P))

\* export { a, b as c };   export default x;   export const ...;
\* export [default] function ...
ExportStatement(t, a, P) ==
  LET b == Skip(t, a + 1)
      tok == At(t, b)
      c == Skip(t, b + 1)
  IN IF tok = "{"
     THEN LET r == ParseSpecifiers(t, b + 1, <<>>)
          IN [tree |-> [P EXCEPT
                 !.exportNames = @ \cup {r.elements[k].name :
                                           k \in 1..Len(r.elements)},
                 !.used = @ \cup SpecifierNames(r.elements)],
              next |-> AfterSemicolon(t, r.end)]
     ELSE IF tok = "const" THEN VariableStatement(t, a, b + 1, TRUE, P)
     ELSE IF tok = "function" THEN FunctionHeader(t, a, b + 1, TRUE, P)
     ELSE IF tok = "default" /\ At(t, c) = "function"
     THEN FunctionHeader(t, a, c + 1, TRUE, P)
     ELSE IF tok = "default" /\ IsExpression(At(t, c))
     THEN [tree |-> MarkJsx([P EXCEPT
                 !.exportNames = IF IsIdentifierName(t[c])
                                 THEN @ \cup {IdentifierText(t, c)} ELSE @,
                 !.used = @ \cup ExpressionNames(t, c)], t[c] \in JsxTokens),
           next |-> AfterSemicolon(t, ExpressionEnd(t, c))]
     ELSE [tree |-> P, next |-> a + 1]

AddImport(r, P) ==
  [tree |->
     IF r.isImportDeclaration /\ P.stack = <<>>
     THEN [P EXCEPT !.imports = Append(@, r)]
     ELSE IF r.isImportDeclaration
     THEN [P EXCEPT !.used = @ \cup ImportIdentifiers(r)]
     ELSE [P EXCEPT !.used = @ \cup r.names],
   next |-> r.next]

ImportStatement(t, a, P) == AddImport(ParseImport(t, a), P)

ExpressionStatement(t, a, P) ==
  IF IsExpression(At(t, a))
  THEN [tree |-> MarkJsx([P EXCEPT !.used = @ \cup ExpressionNames(t, a)],
                         t[a] \in JsxTokens),
        next |-> AfterSemicolon(t, ExpressionEnd(t, a))]
  ELSE [tree |-> P, next |-> a + 1]

Statement(t, a, P) ==
  CASE t[a] = "import" -> ImportStatement(t, a, P)
    [] t[a] = "export" -> ExportStatement(t, a, P)
    [] t[a] = "const" -> VariableStatement(t, a, a + 1, FALSE, P)
    [] t[a] = "function" -> FunctionHeader(t, a, a + 1, FALSE, P)
    [] t[a] = "}" -> [tree |-> CloseFunction(a, P), next |-> a + 1]
    [] OTHER -> ExpressionStatement(t, a, P)

\* The statements from offset i on: r is the last statement parsed.  At the
\* end of the file the function bodies in r.tree.stack are still open.
RECURSIVE ParseStatements(_, _)
ParseStatements(t, r) ==
  IF Skip(t, r.next) > Len(t) THEN r.tree
  ELSE ParseStatements(t, Statement(t, Skip(t, r.next), r.tree))

\* ts.createSourceFile(fileName, fileContent, ScriptTarget.Latest, true):
\* the parser never throws, it closes what is open and returns a tree.
createSourceFile(t) ==
  CloseAll(Len(t), ParseStatements(t, [tree |-> EmptyTree, next |-> 1]))

\* sourceFile.parseDiagnostics holds "'}' expected": a function body is
\* open at the end of the file.
parseDiagnostics(t) ==
  ParseStatements(t, [tree |-> EmptyTree, next |-> 1]).stack # <<>>

\* Variant of collectUsedIdentifiers that does not set the names of the
\* variable declarations apart.
collectEveryIdentifier(sourceFile) ==
  sourceFile.used
  \cup {sourceFile.vars[k].name : k \in 1..Len(sourceFile.vars)}

\* collectUsedIdentifiers: the text of every identifier node that is outside
\* the top-level import declarations and is not the name of a variable
\* declaration, a parameter or a function declaration.
collectUsedIdentifiers(sourceFile) == sourceFile.used

-----------------------------------------------------------------------------
(* cleanUnusedImports *)

\* usedNamedImports = namedImports.filter(e => usedIdentifiers.has(e.name.text))
RECURSIVE FilterUsed(_, _)
FilterUsed(elements, used) ==
  IF elements = <<>> THEN <<>>
  ELSE (IF Head(elements).name \in used THEN <<Head(elements)>> ELSE <<>>)
       \o FilterUsed(Tail(elements), used)

\* Variant of JoinSpecifiers that writes the local names only.
RECURSIVE JoinLocalNames(_)
JoinLocalNames(elements) ==
  IF elements = <<>> THEN <<>>
  ELSE IF Len(elements) = 1 THEN <<Head(elements).name>>
  ELSE <<Head(elements).name, ",", SP>> \o JoinLocalNames(Tail(elements))

\* elements.map(e => e.propertyName ? `${propertyName} as ${name}` : name)
\*         .join(", ")
RECURSIVE JoinSpecifiers(_)
JoinSpecifiers(elements) ==
  IF elements = <<>> THEN <<>>
  ELSE LET e == Head(elements)
           one == IF e.propertyName = "" THEN <<e.name>>
                  ELSE <<e.propertyName, SP, "as", SP, e.name>>
       IN IF Len(elements) = 1 THEN one
          ELSE one \o <<",", SP>> \o JoinSpecifiers(Tail(elements))

\* `{ ${newNamedImports} }`
Braces(elements) == <<"{", SP>> \o JoinSpecifiers(elements) \o <<SP, "}">>

\* `import { ${newNamedImports} } from ${node.moduleSpecifier.getText()};`
NamedOnlyDeclaration(elements, imp) ==
  <<"import", SP>> \o Braces(elements) \o <<SP, "from", SP>>
  \o (IF imp.moduleSpecifier = "" THEN <<>> ELSE <<imp.moduleSpecifier>>)
  \o <<";">>

\* Variant of Change whose range ends one offset later.
ChangeWidened(start, end, replacement) ==
  [start |-> start, end |-> end + 1, replacement |-> replacement]

Change(start, end, replacement) ==
  [start |-> start, end |-> end, replacement |-> replacement]

\* The body of the forEachChild callback for one import declaration: the
\* changes it pushes (none or one).
NamedImportsChange(imp, used) ==
  LET namedImports == imp.nb.elements
      usedNamedImports == FilterUsed(namedImports, used)
      defaultImportUsed == IF imp.hasDefault THEN imp.defName \in used ELSE TRUE
  IN IF Len(usedNamedImports) < Len(namedImports)
     THEN IF imp.hasDefault /\ Len(usedNamedImports) = 0
          THEN IF defaultImportUsed
               THEN <<Change(imp.nb.start, imp.nb.end, <<>>)>>
               ELSE <<Change(imp.start, imp.end, <<>>)>>
          ELSE IF ~imp.hasDefault \/ defaultImportUsed
               THEN IF Len(usedNamedImports) > 0
                    THEN <<Change(imp.nb.start, imp.nb.end,
                                  Braces(usedNamedImports))>>
                    ELSE <<Change(imp.nb.start, imp.nb.end, <<>>)>>
               ELSE IF Len(usedNamedImports) > 0
                    THEN <<Change(imp.start, imp.end,
                                  NamedOnlyDeclaration(usedNamedImports, imp))>>
                    ELSE <<Change(imp.start, imp.end, <<>>)>>
     ELSE IF ~defaultImportUsed /\ imp.hasDefault
     THEN <<Change(imp.start, imp.end, NamedOnlyDeclaration(namedImports, imp))>>
     ELSE <<>>

NamespaceImportChange(imp, used) ==
  LET isNamespaceUsed == imp.nb.name \in used
      defaultImportUsed == IF imp.hasDefault THEN imp.defName \in used ELSE TRUE
  IN IF ~isNamespaceUsed
     THEN IF imp.hasDefault /\ defaultImportUsed
          THEN <<Change(imp.defEnd + 1, imp.clauseEnd, <<>>)>>
          ELSE <<Change(imp.start, imp.end, <<>>)>>
     ELSE IF imp.hasDefault /\ ~defaultImportUsed
     THEN <<Change(imp.defStart, imp.defEnd + 1, <<>>)>>
     ELSE <<>>

\* Variant of ImportChange that takes a declaration without import clause
\* for one with nothing used.
ImportChangeErasingBare(imp, used) ==
  IF ~imp.hasClause THEN <<Change(imp.start, imp.end, <<>>)>>
  ELSE IF imp.nb.kind = "named" THEN NamedImportsChange(imp, used)
  ELSE IF imp.nb.kind = "namespace" THEN NamespaceImportChange(imp, used)
  ELSE IF imp.hasDefault /\ imp.defName \notin used
  THEN <<Change(imp.start, imp.end, <<>>)>>
  ELSE <<>>

ImportChange(imp, used) ==
  IF ~imp.hasClause THEN <<>>
  ELSE IF imp.nb.kind = "named" THEN NamedImportsChange(imp, used)
  ELSE IF imp.nb.kind = "namespace" THEN NamespaceImportChange(imp, used)
  ELSE IF imp.hasDefault /\ imp.defName \notin used
  THEN <<Change(imp.start, imp.end, <<>>)>>
  ELSE <<>>

\* importChanges after the forEachChild over the source file.
RECURSIVE ImportChangesFrom(_, _, _)
ImportChangesFrom(imports, k, used) ==
  IF k > Len(imports) THEN <<>>
  ELSE ImportChange(imports[k], used) \o ImportChangesFrom(imports, k + 1, used)

importChanges(sourceFile, usedIdentifiers) ==
  ImportChangesFrom(sourceFile.imports, 1, usedIdentifiers)

\* Variant of SortDescending: the changes are left in document order.
SortAscending(changes) == changes

\* Array.prototype.sort((a, b) => b.start - a.start): stable, descending.
RECURSIVE InsertDescending(_, _)
InsertDescending(sorted, c) ==
  IF sorted = <<>> THEN <<c>>
  ELSE IF Head(sorted).start >= c.start
  THEN <<Head(sorted)>> \o InsertDescending(Tail(sorted), c)
  ELSE <<c>> \o sorted

RECURSIVE SortDescending(_)
SortDescending(changes) ==
  IF changes = <<>> THEN <<>>
  ELSE InsertDescending(SortDescending(SubSeq(changes, 1, Len(changes) - 1)),
                        changes[Len(changes)])

Min(a, b) == IF a < b THEN a ELSE b
Max(a, b) == IF a > b THEN a ELSE b

\* String.prototype.substring on offsets [from, to), clamped to the string.
Substring(s, from, to) ==
  LET lo == Max(1, Min(Min(from, to), Len(s) + 1))
      hi == Max(1, Min(Max(from, to), Len(s) + 1))
  IN SubSeq(s, lo, hi - 1)

\* Variant of Splice: the replacement is put in front of the two substrings.
SpliceAtFront(result, change) ==
  change.replacement \o Substring(result, 1, change.start)
  \o Substring(result, change.end, Len(result) + 1)

\* result.substring(0, start) + replacement + result.substring(end)
Splice(result, change) ==
  Substring(result, 1, change.start) \o change.replacement
  \o Substring(result, change.end, Len(result) + 1)

RECURSIVE SpliceAll(_, _)
SpliceAll(result, changes) ==
  IF changes = <<>> THEN result
  ELSE SpliceAll(Splice(result, Head(changes)), Tail(changes))

\* The offset of the last line break of the white-space run that starts at
\* i, and the line breaks in it (0 and 0 when the run is empty).
RECURSIVE RunInfo(_, _, _, _)
RunInfo(t, i, last, count) ==
  IF i > Len(t) \/ t[i] \notin WhiteSpace THEN [last |-> last, count |-> count]
  ELSE IF t[i] = NL THEN RunInfo(t, i + 1, i, count + 1)
  ELSE RunInfo(t, i + 1, last, count)

\* content.replace(/\n\s*\n\s*\n/g, "\n\n")
RECURSIVE CleanFrom(_, _)
CleanFrom(t, i) ==
  IF i > Len(t) THEN <<>>
  ELSE IF t[i] = NL
  THEN LET run == RunInfo(t, i + 1, 0, 0)
       IN IF run.count >= 2
          THEN <<NL, NL>> \o CleanFrom(t, run.last + 1)
          ELSE <<NL>> \o CleanFrom(t, i + 1)
  ELSE <<t[i]>> \o CleanFrom(t, i + 1)

\* Variant of cleanEmptyLines: the lazy pattern /\n\s*?\n\s*?\n/g, which ends
\* a match at the second line break of the run.
RECURSIVE SecondBreak(_, _, _)
SecondBreak(t, i, count) ==
  IF i > Len(t) \/ t[i] \notin WhiteSpace THEN 0
  ELSE IF t[i] = NL THEN IF count = 1 THEN i ELSE SecondBreak(t, i + 1, 1)
  ELSE SecondBreak(t, i + 1, count)

RECURSIVE CleanLazyFrom(_, _)
CleanLazyFrom(t, i) ==
  IF i > Len(t) THEN <<>>
  ELSE IF t[i] = NL /\ SecondBreak(t, i + 1, 0) # 0
  THEN <<NL, NL>> \o CleanLazyFrom(t, SecondBreak(t, i + 1, 0) + 1)
  ELSE <<t[i]>> \o CleanLazyFrom(t, i + 1)

cleanEmptyLinesLazy(content) == CleanLazyFrom(content, 1)

cleanEmptyLines(content) == CleanFrom(content, 1)

cleanUnusedImports(sourceFile, fileContent, usedIdentifiers) ==
  cleanEmptyLines(
    SpliceAll(fileContent,
              SortDescending(importChanges(sourceFile, usedIdentifiers))))

\* performRemoveUnusedImports: the new content, or the same content when the
\* function returns null.
UpdatedContent(sourceFile, fileContent) ==
  cleanUnusedImports(sourceFile, fileContent,
                     collectUsedIdentifiers(sourceFile))

performRemoveUnusedImports(fileContent) ==
  UpdatedContent(createSourceFile(fileContent), fileContent)

\* The importChanges that cleanUnusedImports collects for a text.
ImportChangesOf(sourceFile) ==
  importChanges(sourceFile, collectUsedIdentifiers(sourceFile))

PlannedImportChanges(fileContent) ==
  ImportChangesOf(createSourceFile(fileContent))

-----------------------------------------------------------------------------
(* findUnusedVariablesAndParams, findUnusedFunctions *)

\* The indices of 1..n that are in keep, in order.
RECURSIVE SelectIndices(_, _, _)
SelectIndices(n, k, keep) ==
  IF k > n THEN <<>>
  ELSE (IF k \in keep THEN <<k>> ELSE <<>>) \o SelectIndices(n, k + 1, keep)

\* unusedVariables: the variable declarations whose name is not used and
\* does not start with "_" (indices into sourceFile.vars, document order).
unusedVariables(sourceFile, usedIdentifiers) ==
  SelectIndices(Len(sourceFile.vars), 1,
    {k \in 1..Len(sourceFile.vars) :
       /\ sourceFile.vars[k].name \notin usedIdentifiers
       /\ ~sourceFile.vars[k].underscore})

\* Variant of unusedParametersOf that does not look at the underscore.
unusedParametersWithUnderscore(fn, usedIdentifiers) ==
  SelectIndices(Len(fn.params), 1,
    {i \in 1..Len(fn.params) : fn.params[i].name \notin usedIdentifiers})

\* unusedParameters of one function: the indices of its parameters whose
\* name is not used and does not start with "_".
unusedParametersOf(fn, usedIdentifiers) ==
  SelectIndices(Len(fn.params), 1,
    {i \in 1..Len(fn.params) :
       /\ fn.params[i].name \notin usedIdentifiers
       /\ ~fn.params[i].underscore})

\* /^[A-Z]/.test(name)
StartsUpperCase(name) == name \in {"Comp", "D", "X"}

\* Variant of isReactComponent that looks at the name only.
isUpperCaseFunction(fn) == StartsUpperCase(fn.name)

\* isReactComponent
isReactComponent(fn) == StartsUpperCase(fn.name) /\ fn.hasJsx

\* isEventHandler: /^(on[A-Z]|handle[A-Z])/.test(name)
isEventHandler(fn) == fn.name \in {"onLoad", "handleIt"}

\* Variant of findUnusedFunctions that does not look at the exports.
findUnusedFunctionsIgnoringExports(sourceFile, usedIdentifiers) ==
  SelectIndices(Len(sourceFile.funcs), 1,
    {k \in 1..Len(sourceFile.funcs) :
       LET fn == sourceFile.funcs[k]
       IN /\ fn.name # ""
          /\ ~fn.underscore
          /\ fn.name \notin usedIdentifiers
          /\ ~isReactComponent(fn)
          /\ ~isEventHandler(fn)})

\* findUnusedFunctions (indices into sourceFile.funcs, document order).
findUnusedFunctions(sourceFile, usedIdentifiers) ==
  SelectIndices(Len(sourceFile.funcs), 1,
    {k \in 1..Len(sourceFile.funcs) :
       LET fn == sourceFile.funcs[k]
       IN /\ fn.name # ""
          /\ ~fn.underscore
          /\ fn.name \notin usedIdentifiers
          /\ fn.name \notin sourceFile.exportNames
          /\ ~isReactComponent(fn)
          /\ ~isEventHandler(fn)})

-----------------------------------------------------------------------------
(* performHandleUnusedVariables: the edit plan *)

Span(start, end, replacement, kind, node) ==
  [start |-> start, end |-> end, replacement |-> replacement,
   kind |-> kind, node |-> node]

\* originalText.split('\n').map(line => `// ${line}`).join('\n')
RECURSIVE CommentLines(_)
CommentLines(original) ==
  IF original = <<>> THEN <<>>
  ELSE IF Head(original) = NL THEN <<NL, "//">> \o CommentLines(Tail(original))
  ELSE <<Head(original)>> \o CommentLines(Tail(original))

commentedText(original) == <<"//">> \o CommentLines(original)

\* The span that comments out the statement of an unused variable.
CommentVariable(fileContent, sourceFile, k) ==
  LET v == sourceFile.vars[k]
  IN Span(v.stmtStart, v.stmtEnd,
          <<"// TODO: Unused variable", NL>>
          \o commentedText(Substring(fileContent, v.stmtStart, v.stmtEnd)),
          "commentVariable", k)

\* The span that comments out an unused function.
CommentFunction(fileContent, sourceFile, k) ==
  LET fn == sourceFile.funcs[k]
  IN Span(fn.start, fn.end,
          <<"// TODO: Unused function", NL>>
          \o commentedText(Substring(fileContent, fn.start, fn.end)),
          "commentFunction", k)

\* for (const variable of unusedVariables) { ... edit.replace(...) }
RECURSIVE CommentVariables(_, _, _)
CommentVariables(fileContent, sourceFile, indices) ==
  IF indices = <<>> THEN <<>>
  ELSE <<CommentVariable(fileContent, sourceFile, Head(indices))>>
       \o CommentVariables(fileContent, sourceFile, Tail(indices))

\* handleUnusedFunctions: for (const func of unusedFunctions) { ... }
RECURSIVE handleUnusedFunctions(_, _, _)
handleUnusedFunctions(fileContent, sourceFile, indices) ==
  IF indices = <<>> THEN <<>>
  ELSE <<CommentFunction(fileContent, sourceFile, Head(indices))>>
       \o handleUnusedFunctions(fileContent, sourceFile, Tail(indices))

\* lastUsedIndex: the last parameter that is not in the unused list (0 when
\* there is none; the code counts from 0 and has -1).
RECURSIVE LastUsedFrom(_, _, _)
LastUsedFrom(n, unused, i) ==
  IF i = 0 THEN 0
  ELSE IF i \notin Range(unused) THEN i
  ELSE LastUsedFrom(n, unused, i - 1)

lastUsedIndex(fn, unused) == LastUsedFrom(Len(fn.params), unused, Len(fn.params))

\* paramsToPrefix: the unused parameters that are not after the last used
\* one, and all of them when trailing parameters are not removed.
RECURSIVE FilterPrefix(_, _, _)
FilterPrefix(unused, lastUsed, shouldRemoveTrailing) ==
  IF unused = <<>> THEN <<>>
  ELSE (IF Head(unused) > lastUsed /\ shouldRemoveTrailing THEN <<>>
        ELSE <<Head(unused)>>)
       \o FilterPrefix(Tail(unused), lastUsed, shouldRemoveTrailing)

\* Variant of paramsToPrefix that leaves the trailing parameters out whatever
\* the setting is.
paramsToPrefixBeforeLastUsed(fn, unused, shouldRemoveTrailing) ==
  FilterPrefix(unused, lastUsedIndex(fn, unused), TRUE)

paramsToPrefix(fn, unused, shouldRemoveTrailing) ==
  FilterPrefix(unused, lastUsedIndex(fn, unused), shouldRemoveTrailing)

hasTrailingParams(fn, unused, shouldRemoveTrailing) ==
  \E i \in Range(unused) :
     i > lastUsedIndex(fn, unused) /\ shouldRemoveTrailing

\* edit.replace(document.uri, paramRange, `_${param.name.text}`)
RECURSIVE PrefixSpans(_, _, _, _)
PrefixSpans(fileContent, fn, f, toPrefix) ==
  IF toPrefix = <<>> THEN <<>>
  ELSE LET p == fn.params[Head(toPrefix)]
       IN <<Span(p.start, p.end,
                 <<"_">> \o Substring(fileContent, p.start, p.end),
                 "prefixParameter", <<f, Head(toPrefix)>>)>>
          \o PrefixSpans(fileContent, fn, f, Tail(toPrefix))

\* The text of parameter i in the rebuilt list: the text of the document,
\* prefixed only when the parameter is unused, not yet "_"-named and not
\* among paramsToPrefix.
RebuiltParameter(fileContent, fn, i, unused, toPrefix) ==
  LET p == fn.params[i]
      paramText == Substring(fileContent, p.start, p.end)
  IN IF /\ i \in Range(unused)
        /\ ~p.underscore
        /\ i \notin Range(toPrefix)
     THEN <<"_">> \o paramText
     ELSE paramText

\* allParams.slice(0, lastUsedIndex + 1).map(...).join(", ")
RECURSIVE paramList(_, _, _, _, _, _)
paramList(fileContent, fn, i, last, unused, toPrefix) ==
  IF i > last THEN <<>>
  ELSE RebuiltParameter(fileContent, fn, i, unused, toPrefix)
       \o (IF i < last THEN <<",", SP>> ELSE <<>>)
       \o paramList(fileContent, fn, i + 1, last, unused, toPrefix)

\* The body of the loop over paramsByFunction for function f.
FunctionParameterSpans(fileContent, sourceFile, f, usedIdentifiers, shouldRemoveTrailing) ==
  LET fn == sourceFile.funcs[f]
      unused == unusedParametersOf(fn, usedIdentifiers)
      last == lastUsedIndex(fn, unused)
      toPrefix == paramsToPrefix(fn, unused, shouldRemoveTrailing)
  IN IF unused = <<>> THEN <<>>
     ELSE PrefixSpans(fileContent, fn, f, toPrefix)
          \o (IF /\ hasTrailingParams(fn, unused, shouldRemoveTrailing)
                 /\ shouldRemoveTrailing
                 /\ last >= 1
              THEN <<Span(fn.params[1].start, fn.params[Len(fn.params)].end,
                          paramList(fileContent, fn, 1, last, unused, toPrefix),
                          "parameterList", <<f, 0>>)>>
              ELSE <<>>)

\* handleUnusedFunctionParameters: paramsByFunction keeps the functions in
\* the order of their first unused parameter, which is document order.
RECURSIVE handleUnusedFunctionParameters(_, _, _, _, _)
handleUnusedFunctionParameters(fileContent, sourceFile, f, usedIdentifiers, shouldRemoveTrailing) ==
  IF f > Len(sourceFile.funcs) THEN <<>>
  ELSE FunctionParameterSpans(fileContent, sourceFile, f, usedIdentifiers,
                              shouldRemoveTrailing)
       \o handleUnusedFunctionParameters(fileContent, sourceFile, f + 1,
                                         usedIdentifiers, shouldRemoveTrailing)

NothingFound(sourceFile, usedIdentifiers) ==
  /\ unusedVariables(sourceFile, usedIdentifiers) = <<>>
  /\ \A f \in 1..Len(sourceFile.funcs) :
        unusedParametersOf(sourceFile.funcs[f], usedIdentifiers) = <<>>
  /\ findUnusedFunctions(sourceFile, usedIdentifiers) = <<>>

\* The replacements performHandleUnusedVariables puts into its
\* WorkspaceEdit, in the order of the edit.replace calls.
\* Variant of WorkspaceEdit that comments out under every policy.
WorkspaceEditCommentingAlways(fileContent, sourceFile, usedIdentifiers, action, shouldRemoveTrailing) ==
  CommentVariables(fileContent, sourceFile,
                   unusedVariables(sourceFile, usedIdentifiers))
  \o handleUnusedFunctions(fileContent, sourceFile,
                           findUnusedFunctions(sourceFile, usedIdentifiers))
  \o handleUnusedFunctionParameters(fileContent, sourceFile, 1,
                                    usedIdentifiers, shouldRemoveTrailing)

WorkspaceEdit(fileContent, sourceFile, usedIdentifiers, action, shouldRemoveTrailing) ==
  (IF action = "comment"
   THEN CommentVariables(fileContent, sourceFile,
                         unusedVariables(sourceFile, usedIdentifiers))
        \o handleUnusedFunctions(fileContent, sourceFile,
                                 findUnusedFunctions(sourceFile,
                                                     usedIdentifiers))
   ELSE <<>>)
  \o handleUnusedFunctionParameters(fileContent, sourceFile, 1,
                                    usedIdentifiers, shouldRemoveTrailing)

WorkspaceEditOf(fileContent, sourceFile, action, shouldRemoveTrailing) ==
  WorkspaceEdit(fileContent, sourceFile, collectUsedIdentifiers(sourceFile),
                action, shouldRemoveTrailing)

handleVariablesPlan(fileContent, action, shouldRemoveTrailing) ==
  WorkspaceEditOf(fileContent, createSourceFile(fileContent), action,
                  shouldRemoveTrailing)

NothingFoundIn(sourceFile) ==
  NothingFound(sourceFile, collectUsedIdentifiers(sourceFile))

\* performHandleUnusedVariables returns null.
performHandleUnusedVariablesIsNull(fileContent) ==
  NothingFoundIn(createSourceFile(fileContent))

-----------------------------------------------------------------------------
(* vscode.workspace.applyEdit *)

Overlaps(p, q) == p.start < q.end /\ q.start < p.end

HasOverlap(plan) ==
  \E i, j \in 1..Len(plan) : i < j /\ Overlaps(plan[i], plan[j])

\* What applying a WorkspaceEdit can do to the document.  Replacements that
\* do not overlap are all made, each at its range of the original text.  For
\* overlapping replacements the editor refuses the whole edit ("rejected"),
\* and a planner that does not look for overlaps splices them back to front
\* ("applied"): both are outcomes.
applyEditOutcomes(plan) ==
  IF HasOverlap(plan) THEN {"rejected", "applied"} ELSE {"applied"}

applyEdit(fileContent, plan, outcome) ==
  IF outcome = "rejected" THEN fileContent
  ELSE SpliceAll(fileContent, SortDescending(plan))

-----------------------------------------------------------------------------
(* Documents *)

MaxImports == 2   \* import declarations of a document
MaxOps == 2       \* operations run on a document

ModuleLiteral(i) == <<"'m1'", "'m2'", "'m3'", "'m4'">>[i]

\* [".js", ".jsx", ".ts", ".tsx"].includes(path.extname(fileName))
SupportedExtensions == {".js", ".jsx", ".ts", ".tsx"}

\* Variant of isJsTs: every file is taken for a script.
isAnyFile(ext) == TRUE

isJsTs(ext) == ext \in SupportedExtensions

ImportForms == 1..7

ImportForm(k, m) ==
  CASE k = 1 -> <<"import", m, ";">>
    [] k = 2 -> <<"import", "D", "from", m, ";">>
    [] k = 3 -> <<"import", "{", "a", "}", "from", m, ";">>
    [] k = 4 -> <<"import", "{", "a", ",", "p", "as", "b", "}", "from", m, ";">>
    [] k = 5 -> <<"import", "D", ",", "{", "a", ",", "p", "as", "b", "}",
                  "from", m, ";">>
    [] k = 6 -> <<"import", "*", "as", "X", "from", m>>
    [] k = 7 -> <<"import", "D", ",", "*", "as", "X", "from", m, ";">>
    [] k = 8 -> <<"import", "D", SP, ",", "*", "as", "X", "from", m, ";">>

\* One import declaration a line.
RECURSIVE ImportLines(_, _)
ImportLines(forms, i) ==
  IF i > Len(forms) THEN <<>>
  ELSE ImportForm(forms[i], ModuleLiteral(i)) \o <<NL>>
       \o ImportLines(forms, i + 1)

ImportedNames == <<"D", "a", "b", "X">>

\* A line of expression statements referring to the names of U.
RECURSIVE References(_, _)
References(U, i) ==
  IF i > Len(ImportedNames) THEN <<NL>>
  ELSE (IF ImportedNames[i] \in U THEN <<ImportedNames[i], ";">> ELSE <<>>)
       \o References(U, i + 1)

Layouts == {"tight", "blank", "run"}

ImportDocument(forms, U, layout) ==
  ImportLines(forms, 1)
  \o (IF layout = "blank" THEN <<NL>> ELSE <<>>)
  \o References(U, 1)
  \o (IF layout = "run" THEN <<SP, NL, NL, NL, "y", ";">> ELSE <<>>)

ImportDocuments ==
  {ImportDocument(forms, U, layout) :
     forms \in UNION {[1..n -> ImportForms] : n \in 1..MaxImports},
     U \in SUBSET {"D", "a", "b", "X"},
     layout \in Layouts}

\* One import line with a namespace binding; in form 8 a space stands
\* between the default name and the comma.
NamespaceForms == {6, 7, 8}

NamespaceDocuments ==
  {ImportDocument(<<k>>, U, layout) :
     k \in NamespaceForms, U \in SUBSET {"D", "a", "b", "X"},
     layout \in Layouts}

-----------------------------------------------------------------------------
(* The remove-imports command *)

InitImports ==
  /\ text \in ImportDocuments
  /\ prevText = <<>>
  /\ lastOp = "none"
  /\ lastPlan = <<>>
  /\ lastResult = "none"
  /\ unusedVariableAction = "comment"
  /\ removeTrailingParameters = TRUE
  /\ nOps = 0
  /\ extname = ".ts"
  /\ autoRemoveUnusedImports = FALSE
  /\ autoHandleUnusedVariables = FALSE
  /\ pc = 0
  /\ importsResult = "none"
  /\ queued = <<>>

\* removeUnusedImports: the edit of performRemoveUnusedImports replaces the
\* whole document by the updated content; null leaves the document alone.
RemoveUnusedImports ==
  /\ pc = 0
  /\ nOps < MaxOps
  /\ IF ~isJsTs(extname)
     THEN /\ text' = text
          /\ lastPlan' = <<>>
          /\ lastResult' = "notJsTs"
     ELSE /\ \E updatedContent \in {performRemoveUnusedImports(text)} :
               /\ text' = updatedContent
               /\ lastResult' = IF updatedContent = text THEN "null"
                                ELSE "applied"
          /\ lastPlan' = PlannedImportChanges(text)
  /\ prevText' = text
  /\ lastOp' = "imports"
  /\ nOps' = nOps + 1
  /\ UNCHANGED <<settings, pc, importsResult, queued>>

NextImports == RemoveUnusedImports

SpecImports == InitImports /\ [][NextImports]_vars

\* The remove-imports command on the documents with a namespace binding.
InitNamespace ==
  /\ text \in NamespaceDocuments
  /\ prevText = <<>>
  /\ lastOp = "none"
  /\ lastPlan = <<>>
  /\ lastResult = "none"
  /\ unusedVariableAction = "comment"
  /\ removeTrailingParameters = TRUE
  /\ nOps = 0
  /\ extname = ".ts"
  /\ autoRemoveUnusedImports = FALSE
  /\ autoHandleUnusedVariables = FALSE
  /\ pc = 0
  /\ importsResult = "none"
  /\ queued = <<>>

SpecNamespace == InitNamespace /\ [][NextImports]_vars

-----------------------------------------------------------------------------
(* Documents of one function declaration *)

MaxParams == 3    \* parameters of the function of a document

ParamNames == <<"x", "y", "z", "q", "r">>

\* A parameter is unused ("U"), used in the body ("S") or named with a
\* leading underscore and unused ("K").
ParamKinds == {"U", "S", "K"}

ParamLists == UNION {[1..n -> ParamKinds] : n \in 0..MaxParams}

RECURSIVE ParameterTokens(_, _)
ParameterTokens(kinds, i) ==
  IF i > Len(kinds) THEN <<>>
  ELSE (IF kinds[i] = "K" THEN <<"_">> ELSE <<>>) \o <<ParamNames[i]>>
       \o (IF i < Len(kinds) THEN <<",", SP>> ELSE <<>>)
       \o ParameterTokens(kinds, i + 1)

\* The expression statements of the body that use the "S" parameters.
RECURSIVE ParameterUses(_, _)
ParameterUses(kinds, i) ==
  IF i > Len(kinds) THEN <<>>
  ELSE (IF kinds[i] = "S" THEN <<ParamNames[i], ";">> ELSE <<>>)
       \o ParameterUses(kinds, i + 1)

FunctionNames ==
  {<<"f">>, <<"_", "f">>, <<"Comp">>, <<"onLoad">>, <<"once">>}

ExportKinds == {"none", "modifier", "list", "default", "defaultFunction"}

BodyKinds ==
  {"none", "unused", "used", "two", "underscore", "lines", "jsx", "nested"}

BodyStatements(body) ==
  CASE body = "none" -> <<>>
    [] body = "unused" -> <<"const", "a", "=", "0", ";", NL>>
    [] body = "used" -> <<"const", "a", "=", "0", ";", NL, "a", ";", NL>>
    [] body = "two" -> <<"const", "a", "=", "0", ",", SP, "b", "=", "0", ";",
                         NL, "b", ";", NL>>
    [] body = "underscore" -> <<"const", "_", "a", "=", "0", ";", NL>>
    [] body = "lines" -> <<"const", "a", "=", NL, "0", ";", NL>>
    [] body = "jsx" -> <<"<div/>", ";", NL>>
    [] body = "nested" -> <<"function", SP, "g", "(", ")", "{", "}", NL>>
    [] body = "imported" -> <<"const", "a", "=", "D", ";", NL>>

TopKinds == {"none", "unused", "used", "exportModifier", "exportList"}

TopStatements(top) ==
  CASE top = "none" -> <<>>
    [] top = "unused" -> <<"const", "s", "=", "0", ";", NL>>
    [] top = "used" -> <<"const", "s", "=", "0", ";", NL, "s", ";", NL>>
    [] top = "exportModifier" -> <<"export", SP, "const", "s", "=", "0", ";", NL>>
    [] top = "exportList" -> <<"const", "s", "=", "0", ";", NL,
                               "export", "{", "s", "}", ";", NL>>

FunctionDocument(name, exportKind, kinds, body, top, referenced) ==
  TopStatements(top)
  \o (CASE exportKind = "modifier" -> <<"export", SP>>
        [] exportKind = "defaultFunction" -> <<"export", SP, "default", SP>>
        [] OTHER -> <<>>)
  \o <<"function", SP>> \o name \o <<"(">> \o ParameterTokens(kinds, 1)
  \o <<")", "{", NL>>
  \o ParameterUses(kinds, 1)
  \o (IF ParameterUses(kinds, 1) = <<>> THEN <<>> ELSE <<NL>>)
  \o BodyStatements(body)
  \o <<"}", NL>>
  \o (CASE exportKind = "list" -> <<"export", "{">> \o name \o <<"}", ";", NL>>
        [] exportKind = "default" -> <<"export", SP, "default", SP>> \o name
                                     \o <<";", NL>>
        [] OTHER -> <<>>)
  \o (IF referenced THEN name \o <<";", NL>> ELSE <<>>)

\* Three families: every parameter list, every kind of function, every
\* kind of variable statement.
FunctionDocuments ==
  {FunctionDocument(<<"f">>, "none", kinds, body, "none", referenced) :
     kinds \in ParamLists, body \in {"none", "unused"}, referenced \in BOOLEAN}
  \cup
  {FunctionDocument(name, exportKind, kinds, body, "none", referenced) :
     name \in FunctionNames, exportKind \in ExportKinds,
     kinds \in {<<>>, <<"U">>}, body \in {"none", "unused", "used", "jsx"},
     referenced \in BOOLEAN}
  \cup
  {FunctionDocument(<<"f">>, "none", <<>>, body, top, referenced) :
     body \in BodyKinds, top \in TopKinds, referenced \in BOOLEAN}

-----------------------------------------------------------------------------
(* The handle-variables command *)

InitVars ==
  /\ text \in FunctionDocuments
  /\ prevText = <<>>
  /\ lastOp = "none"
  /\ lastPlan = <<>>
  /\ lastResult = "none"
  /\ unusedVariableAction \in {"comment", "prefix", "ignore"}
  /\ removeTrailingParameters \in BOOLEAN
  /\ nOps = 0
  /\ extname = ".ts"
  /\ autoRemoveUnusedImports = FALSE
  /\ autoHandleUnusedVariables = FALSE
  /\ pc = 0
  /\ importsResult = "none"
  /\ queued = <<>>

\* handleUnusedVariables: no edit when performHandleUnusedVariables returns
\* null, else the edit is handed to vscode.workspace.applyEdit.
HandleUnusedVariables ==
  /\ pc = 0
  /\ nOps < MaxOps
  /\ IF ~isJsTs(extname)
     THEN /\ text' = text
          /\ lastPlan' = <<>>
          /\ lastResult' = "notJsTs"
     ELSE IF performHandleUnusedVariablesIsNull(text)
     THEN /\ text' = text
          /\ lastPlan' = <<>>
          /\ lastResult' = "null"
     ELSE \E plan \in {handleVariablesPlan(text, unusedVariableAction,
                                           removeTrailingParameters)} :
          \E outcome \in applyEditOutcomes(plan) :
             /\ text' = applyEdit(text, plan, outcome)
             /\ lastPlan' = plan
             /\ lastResult' = outcome
  /\ prevText' = text
  /\ lastOp' = "variables"
  /\ nOps' = nOps + 1
  /\ UNCHANGED <<settings, pc, importsResult, queued>>

NextVars == HandleUnusedVariables

SpecVars == InitVars /\ [][NextVars]_vars

-----------------------------------------------------------------------------
(* The clean-all command and the save hook *)

\* Variant of cleanAllCommand: the two calls the other way round.
cleanAllCommandReversed == <<"handleUnusedVariables", "removeUnusedImports">>

\* The statements of the clean-all command: each call is awaited.
cleanAllCommand == <<"removeUnusedImports", "handleUnusedVariables">>

\* Variant of removeUnusedImportsCompletion: the error is thrown on.
removeUnusedImportsRethrows(thrown) == IF thrown THEN "throws" ELSE "returns"

\* How the call of removeUnusedImports completes when something inside its
\* try block has thrown or not: the catch block shows the error.
removeUnusedImportsCompletion(thrown) == "returns"

\* A document with one import line, the references to the names of U, a
\* reference to f or none, and the function f, its body closed or not.
HostForms == {2}

HostBodies == {"none", "unused", "imported"}

HostDocument(form, U, body, referenced, closed) ==
  ImportDocument(<<form>>, U, "tight")
  \o (IF referenced THEN <<"f", ";", NL>> ELSE <<>>)
  \o <<"function", SP, "f", "(", ")", "{", NL>>
  \o BodyStatements(body)
  \o (IF closed THEN <<"}", NL>> ELSE <<>>)

HostDocuments ==
  {HostDocument(form, U, body, referenced, closed) :
     form \in HostForms, U \in SUBSET {"D"}, body \in HostBodies,
     referenced \in BOOLEAN, closed \in BOOLEAN}

Extensions == {".ts", ".jsx", ".json"}

InitHost ==
  /\ text \in HostDocuments
  /\ prevText = <<>>
  /\ lastOp = "none"
  /\ lastPlan = <<>>
  /\ lastResult = "none"
  /\ unusedVariableAction \in {"comment", "prefix"}
  /\ removeTrailingParameters = TRUE
  /\ nOps = 0
  /\ extname \in Extensions
  /\ autoRemoveUnusedImports \in BOOLEAN
  /\ autoHandleUnusedVariables \in BOOLEAN
  /\ pc = 0
  /\ importsResult = "none"
  /\ queued = <<>>

\* await removeUnusedImports() in clean-all.  thrown: something inside the
\* try block throws.
CleanAllRemoveUnusedImports ==
  /\ cleanAllCommand[pc + 1] = "removeUnusedImports"
  /\ pc = 0 => nOps < MaxOps
  /\ \E thrown \in BOOLEAN :
       IF ~isJsTs(extname)
       THEN /\ text' = text
            /\ lastPlan' = <<>>
            /\ importsResult' = "notJsTs"
            /\ pc' = (pc + 1) % Len(cleanAllCommand)
       ELSE IF thrown
       THEN /\ text' = text
            /\ lastPlan' = <<>>
            /\ importsResult' = "error"
            /\ pc' = IF removeUnusedImportsCompletion(thrown) = "returns"
                     THEN (pc + 1) % Len(cleanAllCommand) ELSE 0
       ELSE /\ \E updatedContent \in {performRemoveUnusedImports(text)} :
                 /\ text' = updatedContent
                 /\ importsResult' = IF updatedContent = text THEN "null"
                                     ELSE "applied"
            /\ lastPlan' = PlannedImportChanges(text)
            /\ pc' = (pc + 1) % Len(cleanAllCommand)
  /\ lastResult' = importsResult'
  /\ prevText' = IF pc = 0 THEN text ELSE prevText
  /\ lastOp' = "cleanAll.removeUnusedImports"
  /\ nOps' = IF pc = 0 THEN nOps + 1 ELSE nOps
  /\ UNCHANGED <<settings, queued>>

\* await handleUnusedVariables() in clean-all.
CleanAllHandleUnusedVariables ==
  /\ cleanAllCommand[pc + 1] = "handleUnusedVariables"
  /\ pc = 0 => nOps < MaxOps
  /\ IF ~isJsTs(extname)
     THEN /\ text' = text
          /\ lastPlan' = <<>>
          /\ lastResult' = "notJsTs"
     ELSE IF performHandleUnusedVariablesIsNull(text)
     THEN /\ text' = text
          /\ lastPlan' = <<>>
          /\ lastResult' = "null"
     ELSE \E plan \in {handleVariablesPlan(text, unusedVariableAction,
                                           removeTrailingParameters)} :
          \E outcome \in applyEditOutcomes(plan) :
             /\ text' = applyEdit(text, plan, outcome)
             /\ lastPlan' = plan
             /\ lastResult' = outcome
  /\ pc' = (pc + 1) % Len(cleanAllCommand)
  /\ prevText' = IF pc = 0 THEN text ELSE prevText
  /\ lastOp' = "cleanAll.handleUnusedVariables"
  /\ nOps' = IF pc = 0 THEN nOps + 1 ELSE nOps
  /\ UNCHANGED <<settings, importsResult, queued>>

\* What performRemoveUnusedImports resolves to: null, or an edit that
\* replaces the full range of the document by the updated content.
ImportsEdit(fileContent, updatedContent) ==
  [op |-> "imports", null |-> updatedContent = fileContent,
   edit |-> IF updatedContent = fileContent THEN <<>>
            ELSE <<Change(1, Len(fileContent) + 1, updatedContent)>>]

\* What performHandleUnusedVariables resolves to.
VariablesEdit(fileContent, action, shouldRemoveTrailing) ==
  [op |-> "variables", null |-> performHandleUnusedVariablesIsNull(fileContent),
   edit |-> IF performHandleUnusedVariablesIsNull(fileContent) THEN <<>>
            ELSE handleVariablesPlan(fileContent, action, shouldRemoveTrailing)]

\* The listener of onWillSaveTextDocument: what it hands to e.waitUntil.
waitUntil(fileContent, ext, autoImports, autoVariables, action, shouldRemoveTrailing) ==
  IF ~isJsTs(ext) THEN <<>>
  ELSE (IF autoImports
        THEN <<ImportsEdit(fileContent, performRemoveUnusedImports(fileContent))>>
        ELSE <<>>)
       \o (IF autoVariables
           THEN <<VariablesEdit(fileContent, action, shouldRemoveTrailing)>>
           ELSE <<>>)

\* A save of the document.  The listener applies no edit itself, and what it
\* hands to e.waitUntil resolves to a WorkspaceEdit or null, which is no
\* array of TextEdit: the text that is saved is the text of the document.
OnWillSaveTextDocument ==
  /\ pc = 0
  /\ nOps < MaxOps
  /\ queued' = waitUntil(text, extname, autoRemoveUnusedImports,
                         autoHandleUnusedVariables, unusedVariableAction,
                         removeTrailingParameters)
  /\ text' = text
  /\ prevText' = text
  /\ lastOp' = "save"
  /\ lastPlan' = <<>>
  /\ lastResult' = "none"
  /\ nOps' = nOps + 1
  /\ UNCHANGED <<settings, pc, importsResult>>

NextHost ==
  \/ RemoveUnusedImports
  \/ HandleUnusedVariables
  \/ CleanAllRemoveUnusedImports
  \/ CleanAllHandleUnusedVariables
  \/ OnWillSaveTextDocument

SpecHost == InitHost /\ [][NextHost]_vars

-----------------------------------------------------------------------------
(* Properties of remove-imports *)

RECURSIVE IsSubsequence(_, _)
IsSubsequence(a, b) ==
  IF a = <<>> THEN TRUE
  ELSE IF b = <<>> THEN FALSE
  ELSE IF Head(a) = Head(b) THEN IsSubsequence(Tail(a), Tail(b))
  ELSE IsSubsequence(a, Tail(b))

\* The module specifiers of the import declarations of a text, in order.
ModuleOrder(t) ==
  LET imports == createSourceFile(t).imports
  IN [k \in 1..Len(imports) |-> imports[k].moduleSpecifier]

InsideImport(t, i) ==
  LET imports == createSourceFile(t).imports
  IN \E k \in 1..Len(imports) : imports[k].start <= i /\ i < imports[k].end

RECURSIVE SelectTokens(_, _, _)
SelectTokens(t, keep, i) ==
  IF i > Len(t) THEN <<>>
  ELSE (IF i \in keep THEN <<t[i]>> ELSE <<>>) \o SelectTokens(t, keep, i + 1)

\* The text outside every import declaration.
OutsideImports(t) ==
  SelectTokens(t, {i \in 1..Len(t) : ~InsideImport(t, i)}, 1)

\* Its tokens that are no white space.
CodeOutsideImports(t) ==
  SelectTokens(t, {i \in 1..Len(t) :
                     ~InsideImport(t, i) /\ t[i] \notin WhiteSpace}, 1)

\* The import declarations with a named-imports list, no default binding and
\* no used specifier.
NamedOnlyAllUnused(sourceFile) ==
  {k \in 1..Len(sourceFile.imports) :
     LET imp == sourceFile.imports[k]
     IN /\ imp.hasClause /\ ~imp.hasDefault /\ imp.nb.kind = "named"
        /\ Len(imp.nb.elements) > 0
        /\ FilterUsed(imp.nb.elements, sourceFile.used) = <<>>}

\* C1: in remove-imports, an import declaration with a named-imports list and
\* no default binding, none of whose specifiers is used, gets the single edit
\* that erases its whole range, start of "import" to the end of the
\* declaration.
C1_NamedOnlyAllUnusedErased ==
  lastOp = "imports" =>
    LET sourceFile == createSourceFile(prevText)
    IN \A k \in NamedOnlyAllUnused(sourceFile) :
         LET imp == sourceFile.imports[k]
         IN /\ ImportChange(imp, sourceFile.used)
                 = <<Change(imp.start, imp.end, <<>>)>>
            /\ Change(imp.start, imp.end, <<>>) \in Range(lastPlan)

\* C2: remove-imports is idempotent: a pass over the output of a pass plans
\* no edit, signals no change and leaves the text as it is.
C2_RemoveImportsIdempotent ==
  (lastOp = "imports" /\ nOps >= 2) =>
    /\ lastPlan = <<>>
    /\ lastResult = "null"
    /\ text = prevText

\* A second pass has run over a text that the first pass had changed.
C2_Witness ==
  /\ lastOp = "imports" /\ nOps = 2 /\ lastResult = "null"
  /\ text \notin ImportDocuments

\* C8: remove-imports never reorders imports: the import declarations of the
\* output are, in their order, among those of the input in their order.
C8_ImportOrderPreserved ==
  lastOp = "imports" =>
    IsSubsequence(ModuleOrder(text), ModuleOrder(prevText))

\* A pass has rewritten or erased a declaration and two declarations
\* survive.
C8_Witness ==
  /\ lastOp = "imports" /\ lastResult = "applied" /\ lastPlan # <<>>
  /\ Len(ModuleOrder(text)) >= 2

\* C9 as claimed: every character outside the import declarations, white
\* space and line breaks included, is unchanged and in the same order in the
\* output of remove-imports.
C9_AllTextOutsideImportsKept ==
  lastOp = "imports" => IsSubsequence(OutsideImports(prevText), text)

\* C9 as amended: every character outside the import declarations that is
\* no white space is unchanged and in the same order in the output of
\* remove-imports (white space is not: cleanEmptyLines collapses the blank
\* lines of the whole file, also when no import is unused).
C9_CodeOutsideImportsKept ==
  lastOp = "imports" => IsSubsequence(CodeOutsideImports(prevText), text)

\* A pass has changed the text of a document with code outside its imports.
C9_Witness ==
  /\ lastOp = "imports" /\ lastResult = "applied" /\ lastPlan # <<>>
  /\ CodeOutsideImports(prevText) # <<>>

-----------------------------------------------------------------------------
(* Properties of handle-variables *)

\* The syntax tree and the used names of the text the last command ran on.
Before == createSourceFile(prevText)
UsedBefore == collectUsedIdentifiers(Before)

\* The spans of the last plan of one kind.
SpansOf(kind) == {s \in Range(lastPlan) : s.kind = kind}

\* The texts between the commas of a parameter list, spaces dropped.
RECURSIVE ListPieces(_, _)
ListPieces(tokens, piece) ==
  IF tokens = <<>> THEN <<piece>>
  ELSE IF Head(tokens) = "," THEN <<piece>> \o ListPieces(Tail(tokens), <<>>)
  ELSE IF Head(tokens) = SP THEN ListPieces(Tail(tokens), piece)
  ELSE ListPieces(Tail(tokens), Append(piece, Head(tokens)))

\* A commented text without the comment marker at the start of its lines.
RECURSIVE Uncommented(_, _)
Uncommented(tokens, lineStart) ==
  IF tokens = <<>> THEN <<>>
  ELSE IF lineStart /\ Head(tokens) = "//" THEN Uncommented(Tail(tokens), FALSE)
  ELSE <<Head(tokens)>> \o Uncommented(Tail(tokens), Head(tokens) = NL)

\* Every line of a text starts with the comment marker.
EveryLineCommented(tokens) ==
  /\ tokens # <<>> /\ tokens[1] = "//"
  /\ \A i \in 1..Len(tokens) :
        tokens[i] = NL => (i < Len(tokens) /\ tokens[i + 1] = "//")

\* The names of the parameters of function f in the text after the command.
ParameterNamesAfter(f) ==
  LET after == createSourceFile(text)
  IN IF f > Len(after.funcs) THEN <<>>
     ELSE [i \in 1..Len(after.funcs[f].params) |-> after.funcs[f].params[i].name]

\* C3: with removeTrailingParameters = true, a function whose last used
\* parameter is at lastUsedIndex >= 0 and that has unused parameters before
\* and after it has, after handle-variables, exactly lastUsedIndex + 1
\* parameters in the original order, the unused ones among them prefixed
\* with an underscore.
C3_TrailingDroppedRetainedPrefixed ==
  (lastOp = "variables" /\ removeTrailingParameters) =>
    \A f \in 1..Len(Before.funcs) :
      LET fn == Before.funcs[f]
          unused == unusedParametersOf(fn, UsedBefore)
          last == lastUsedIndex(fn, unused)
      IN (/\ last >= 1
          /\ fn.params[last].name \in UsedBefore
          /\ \E i \in Range(unused) : i < last
          /\ \E i \in Range(unused) : i > last
          /\ f \notin Range(findUnusedFunctions(Before, UsedBefore)))
         => ParameterNamesAfter(f)
              = [i \in 1..last |->
                   IF i \in Range(unused) THEN "_" \o fn.params[i].name
                   ELSE fn.params[i].name]

\* The variable statements of the text before, as the sets of the indices of
\* their declarations.
StatementOf(k) ==
  {j \in 1..Len(Before.vars) :
     Before.vars[j].stmtStart = Before.vars[k].stmtStart}

\* C4: under unusedVariableAction = comment the plan replaces the statement
\* of each flagged variable by a "// TODO: Unused variable" line followed by
\* the lines of the statement, each after a comment marker, and no span of
\* the plan touches a variable statement whose declared names are all used,
\* also when the enclosing function is never referenced.
C4_CommentModePlan ==
  (lastOp = "variables" /\ unusedVariableAction = "comment") =>
    \A k \in 1..Len(Before.vars) :
      LET v == Before.vars[k]
          statementText == Substring(prevText, v.stmtStart, v.stmtEnd)
      IN /\ k \in Range(unusedVariables(Before, UsedBefore)) =>
              \E s \in SpansOf("commentVariable") :
                 /\ s.start = v.stmtStart /\ s.end = v.stmtEnd
                 /\ SubSeq(s.replacement, 1, 2)
                      = <<"// TODO: Unused variable", NL>>
                 /\ EveryLineCommented(
                      SubSeq(s.replacement, 3, Len(s.replacement)))
                 /\ Uncommented(SubSeq(s.replacement, 3, Len(s.replacement)),
                                TRUE) = statementText
         /\ (\A j \in StatementOf(k) : Before.vars[j].name \in UsedBefore) =>
              \A s \in Range(lastPlan) :
                 ~(s.start < v.stmtEnd /\ v.stmtStart < s.end)

\* C5: a variable declared with an export modifier or named in an export
\* list is never in the unused-variable set and never commented out.
C5_ExportedVariablesNeverFlagged ==
  lastOp = "variables" =>
    \A k \in 1..Len(Before.vars) :
      LET v == Before.vars[k]
      IN (v.exported \/ v.name \in Before.exportNames) =>
           /\ k \notin Range(unusedVariables(Before, UsedBefore))
           /\ \A s \in SpansOf("commentVariable") : s.start # v.stmtStart

\* The three ways a function is exported, read off the text.
HasExportModifier(t, fn) == t[fn.start] = "export"

NamedInExportList(t, name) ==
  \E i \in 1..Len(t) : \E j \in (i + 2)..Len(t) :
     /\ t[i] = "export" /\ At(t, Skip(t, i + 1)) = "{"
     /\ \A m \in (i + 1)..j : t[m] # "}"
     /\ t[j - 1] \in {"{", ",", SP}
     /\ IsIdentifierName(t[j]) /\ IdentifierText(t, j) = name
     /\ At(t, Skip(t, IdentifierEnd(t, j))) \in {",", "}"}

IsDefaultExport(t, name) ==
  \E i \in 1..Len(t) :
     LET d == Skip(t, i + 1)
         e == Skip(t, d + 1)
     IN /\ t[i] = "export" /\ At(t, d) = "default"
        /\ IsIdentifierName(At(t, e)) /\ IdentifierText(t, e) = name
        /\ At(t, Skip(t, IdentifierEnd(t, e))) = ";"

IsExportedFunction(t, fn) ==
  /\ fn.name # ""
  /\ \/ HasExportModifier(t, fn)
     \/ NamedInExportList(t, fn.name)
     \/ IsDefaultExport(t, fn.name)

\* C6: a function declaration that carries an export modifier, is named in
\* an export list or is the expression of a default export is never in the
\* set of the unused-function finder, and no span of the plan comments it
\* out.
C6_ExportedFunctionsNeverFlagged ==
  lastOp = "variables" =>
    \A k \in 1..Len(Before.funcs) :
      IsExportedFunction(prevText, Before.funcs[k]) =>
        /\ k \notin Range(findUnusedFunctions(Before, UsedBefore))
        /\ \A s \in SpansOf("commentFunction") :
              s.start # Before.funcs[k].start

\* A comment-mode plan with spans has been made for a text whose function
\* has an export modifier and no reference.
C6_Witness ==
  /\ lastOp = "variables" /\ unusedVariableAction = "comment"
  /\ lastPlan # <<>>
  /\ \E k \in 1..Len(Before.funcs) :
        /\ HasExportModifier(prevText, Before.funcs[k])
        /\ Before.funcs[k].name \notin UsedBefore
        /\ ~Before.funcs[k].underscore

\* C7: a variable, parameter or function whose name starts with "_" is never
\* in the unused-variable, unused-parameter or unused-function set, and no
\* span of the plan comments or renames it on its own account: a rebuilt
\* parameter list keeps it as it is.
C7_UnderscoreImmunity ==
  lastOp = "variables" =>
    /\ \A k \in 1..Len(Before.vars) :
          prevText[Before.vars[k].start] = "_" =>
            /\ k \notin Range(unusedVariables(Before, UsedBefore))
            /\ \A s \in SpansOf("commentVariable") : s.node # k
    /\ \A k \in 1..Len(Before.funcs) :
          LET fn == Before.funcs[k]
          IN /\ (fn.name # "" /\ fn.underscore) =>
                  /\ k \notin Range(findUnusedFunctions(Before, UsedBefore))
                  /\ \A s \in SpansOf("commentFunction") : s.start # fn.start
             /\ \A i \in 1..Len(fn.params) :
                  prevText[fn.params[i].start] = "_" =>
                    /\ i \notin Range(unusedParametersOf(fn, UsedBefore))
                    /\ \A s \in SpansOf("prefixParameter") :
                          s.start # fn.params[i].start
                    /\ \A s \in SpansOf("parameterList") :
                          s.node = <<k, 0>> =>
                            LET pieces == ListPieces(s.replacement, <<>>)
                            IN /\ i <= Len(pieces)
                               /\ pieces[i] = Substring(prevText,
                                                        fn.params[i].start,
                                                        fn.params[i].end)

\* A parameter list with an unused "_" parameter has been rebuilt.
C7_Witness ==
  /\ lastOp = "variables" /\ lastResult = "applied"
  /\ \E k \in 1..Len(Before.funcs) :
       \E i \in 1..Len(Before.funcs[k].params) :
          /\ Before.funcs[k].params[i].underscore
          /\ Before.funcs[k].params[i].name \notin UsedBefore
          /\ \E s \in SpansOf("parameterList") : s.node = <<k, 0>>

\* C10: when no parameter of a function is used, no parameter list is
\* rebuilt and every unused parameter gets an underscore-prefix span, for
\* both values of removeTrailingParameters.
C10_NoUsedParameterAllPrefixed ==
  lastOp = "variables" =>
    \A f \in 1..Len(Before.funcs) :
      LET fn == Before.funcs[f]
          unused == unusedParametersOf(fn, UsedBefore)
      IN (/\ unused # <<>>
          /\ lastUsedIndex(fn, unused) = 0
          /\ f \notin Range(findUnusedFunctions(Before, UsedBefore))) =>
           /\ \A s \in SpansOf("parameterList") : s.node # <<f, 0>>
           /\ \A i \in Range(unused) :
                \E s \in SpansOf("prefixParameter") :
                   /\ s.start = fn.params[i].start /\ s.end = fn.params[i].end
                   /\ s.replacement
                        = <<"_">> \o Substring(prevText, fn.params[i].start,
                                              fn.params[i].end)

\* C11: whenever handle-variables returns a plan instead of null, the plan
\* holds at least one edit span, for every unusedVariableAction and
\* removeTrailingParameters.
C11_NonNullPlanHasSpan ==
  (lastOp = "variables" /\ lastResult # "null") => lastPlan # <<>>

\* C12: under unusedVariableAction = prefix every flagged unused variable
\* gets a span that puts "_" in front of its name.
C12_PrefixModePrefixesVariables ==
  (lastOp = "variables" /\ unusedVariableAction = "prefix") =>
    \A k \in Range(unusedVariables(Before, UsedBefore)) :
      LET v == Before.vars[k]
      IN \E s \in Range(lastPlan) :
            /\ s.start = v.start
            /\ s.end = IdentifierEnd(prevText, v.start)
            /\ s.replacement = <<"_", prevText[v.start]>>

\* A span of the plan comments out function f of the text before.
IsCommentedOut(f) ==
  \E s \in SpansOf("commentFunction") : s.start = Before.funcs[f].start

\* C13: with removeTrailingParameters = false every unused parameter, before
\* or after the last used one, gets a span that replaces its identifier by
\* "_" and the identifier, no parameter list is rebuilt, and in the text
\* after the edit the function has the same parameters in the same order,
\* the unused ones prefixed.
C13_NoParameterDropped ==
  (lastOp = "variables" /\ ~removeTrailingParameters) =>
    \A f \in 1..Len(Before.funcs) :
      LET fn == Before.funcs[f]
          unused == unusedParametersOf(fn, UsedBefore)
      IN /\ \A s \in SpansOf("parameterList") : s.node # <<f, 0>>
         /\ \A i \in Range(unused) :
              \E s \in SpansOf("prefixParameter") :
                 /\ s.start = fn.params[i].start
                 /\ s.end = IdentifierEnd(prevText, fn.params[i].start)
                 /\ s.replacement = <<"_", prevText[fn.params[i].start]>>
         /\ (lastResult = "applied" /\ ~IsCommentedOut(f)) =>
              ParameterNamesAfter(f)
                = [i \in 1..Len(fn.params) |->
                     IF i \in Range(unused) THEN "_" \o fn.params[i].name
                     ELSE fn.params[i].name]

\* The edit was applied to a function with a used parameter and unused
\* parameters before and after it.
C13_Witness ==
  /\ lastOp = "variables" /\ ~removeTrailingParameters
  /\ lastResult = "applied" /\ text # prevText
  /\ \E f \in 1..Len(Before.funcs) :
       LET fn == Before.funcs[f]
           unused == unusedParametersOf(fn, UsedBefore)
           last == lastUsedIndex(fn, unused)
       IN /\ ~IsCommentedOut(f)
          /\ last >= 1 /\ fn.params[last].name \in UsedBefore
          /\ \E i \in Range(unused) : i < last
          /\ \E i \in Range(unused) : i > last

\* C19: no two edit spans of one handle-variables plan overlap.
C19_PlanSpansDisjoint ==
  lastOp = "variables" => ~HasOverlap(lastPlan)

-----------------------------------------------------------------------------
(* More properties of remove-imports *)

\* The import declarations of the text before that have no import clause:
\* "import" directly followed by the module specifier.
SideEffectImports ==
  {k \in 1..Len(Before.imports) :
     At(prevText, Skip(prevText, Before.imports[k].start + 1))
       \in StringLiterals}

\* C18: remove-imports plans no change that intersects the range of an
\* import declaration without import clause, whatever names are used, and
\* the declaration is in the output.
C18_SideEffectImportsUntouched ==
  lastOp = "imports" =>
    \A k \in SideEffectImports :
      LET imp == Before.imports[k]
      IN /\ \A j \in 1..Len(lastPlan) :
              ~(lastPlan[j].start < imp.end /\ imp.start < lastPlan[j].end)
         /\ \E i \in 1..Len(text) :
              SubSeq(text, i, i + (imp.end - imp.start) - 1)
                = SubSeq(prevText, imp.start, imp.end - 1)

\* A pass has changed a text that holds a declaration without import clause.
C18_Witness ==
  /\ lastOp = "imports" /\ lastResult = "applied" /\ lastPlan # <<>>
  /\ SideEffectImports # {}

-----------------------------------------------------------------------------
(* More properties of handle-variables *)

\* C20: the unused-function finder returns top-level function declarations
\* only, and no span of the plan comments out a function declared inside
\* another function.
C20_OnlyTopLevelFunctionsFound ==
  lastOp = "variables" =>
    /\ \A k \in Range(findUnusedFunctions(Before, UsedBefore)) :
         Before.funcs[k].parent = 0
    /\ \A j \in 1..Len(lastPlan) :
         lastPlan[j].kind = "commentFunction"
           => Before.funcs[lastPlan[j].node].parent = 0

-----------------------------------------------------------------------------
(* Properties of the clean-all command and the save hook *)

\* The text of the document after the removeUnusedImports call of clean-all
\* that ended with the given result.
AfterRemoveUnusedImports(fileContent, result) ==
  IF result \in {"error", "notJsTs"} THEN fileContent
  ELSE performRemoveUnusedImports(fileContent)

\* C14: clean-all is remove-imports followed by handle-variables.  When
\* handle-variables is about to start, remove-imports has ended and the
\* document holds its output; when clean-all has ended, the plan is the
\* handle-variables plan for that output and the text is that output with
\* the plan applied (or left alone when there is no plan or the edit is
\* rejected).
C14_CleanAllIsSequentialComposition ==
  /\ pc = 1 =>
       /\ lastOp = "cleanAll.removeUnusedImports"
       /\ text = AfterRemoveUnusedImports(prevText, importsResult)
  /\ (lastOp = "cleanAll.handleUnusedVariables" /\ pc = 0) =>
       LET mid == AfterRemoveUnusedImports(prevText, importsResult)
           plan == handleVariablesPlan(mid, unusedVariableAction,
                                       removeTrailingParameters)
       IN IF lastResult \in {"notJsTs", "null"}
          THEN /\ text = mid
               /\ lastPlan = <<>>
               /\ lastResult = "null" =>
                    performHandleUnusedVariablesIsNull(mid)
          ELSE /\ ~performHandleUnusedVariablesIsNull(mid)
               /\ lastPlan = plan
               /\ lastResult \in applyEditOutcomes(plan)
               /\ text = applyEdit(mid, plan, lastResult)

\* A clean-all has ended in which both operations changed the document.
C14_Witness ==
  /\ lastOp = "cleanAll.handleUnusedVariables" /\ pc = 0
  /\ importsResult = "applied" /\ lastResult = "applied"
  /\ text # AfterRemoveUnusedImports(prevText, importsResult)
  /\ AfterRemoveUnusedImports(prevText, importsResult) # prevText

\* C15: however the removeUnusedImports call of clean-all ends (edit
\* applied, nothing found, not a script, error thrown inside it), the
\* clean-all goes on, and the next thing it does is the
\* handleUnusedVariables call.
C15_HandleVariablesAlwaysInvoked ==
  lastOp = "cleanAll.removeUnusedImports" =>
    /\ pc = 1
    /\ cleanAllCommand[pc + 1] = "handleUnusedVariables"

\* handleUnusedVariables has run in a clean-all whose removeUnusedImports
\* call threw.
C15_Witness ==
  /\ lastOp = "cleanAll.handleUnusedVariables" /\ pc = 0
  /\ importsResult = "error"
  /\ lastResult = "applied"

\* C16: an operation on a text with a parse error ('}' expected) plans no
\* edit and leaves the text as it is.
C16_MalformedSourceUntouched ==
  (lastOp \in {"imports", "variables"} /\ parseDiagnostics(prevText)) =>
    (text = prevText /\ lastPlan = <<>>)

\* C17: for a document whose extension is none of .js, .jsx, .ts, .tsx no
\* command and no save plans or applies an edit; a save changes no text and
\* hands to e.waitUntil only the plans of the operations whose toggle is on,
\* so nothing with both toggles off.
C17_OnlyScriptsOnlyToggledPlans ==
  /\ (lastOp # "none" /\ extname \notin {".js", ".jsx", ".ts", ".tsx"}) =>
       /\ text = prevText
       /\ lastPlan = <<>>
       /\ queued = <<>>
       /\ lastResult \in {"notJsTs", "none"}
  /\ \A k \in 1..Len(queued) :
       /\ queued[k].op = "imports" => autoRemoveUnusedImports
       /\ queued[k].op = "variables" => autoHandleUnusedVariables
  /\ (lastOp = "save" /\ ~autoRemoveUnusedImports
        /\ ~autoHandleUnusedVariables) =>
       (text = prevText /\ queued = <<>>)

\* A save of a script with one toggle on has queued a plan that is not null.
C17_Witness ==
  /\ lastOp = "save" /\ extname = ".ts"
  /\ autoRemoveUnusedImports /\ ~autoHandleUnusedVariables
  /\ Len(queued) = 1 /\ ~queued[1].null

-----------------------------------------------------------------------------
(* The decomposition of one import declaration *)

\* got holds the specifiers of elements whose local name is used, and no
\* other, in the order of elements, with their property names.
KeepsUsedSpecifiers(got, elements) ==
  /\ IsSubsequence(got, elements)
  /\ \A k \in 1..Len(elements) :
       elements[k] \in Range(got) <=> elements[k].name \in UsedBefore

PartlyUsedNamedImports ==
  {k \in 1..Len(Before.imports) :
     LET imp == Before.imports[k]
     IN /\ imp.hasClause /\ imp.nb.kind = "named"
        /\ \E e \in Range(imp.nb.elements) : e.name \in UsedBefore
        /\ \E e \in Range(imp.nb.elements) : e.name \notin UsedBefore}

NamespaceImports ==
  {k \in 1..Len(Before.imports) :
     Before.imports[k].hasClause /\ Before.imports[k].nb.kind = "namespace"}

\* The changes of the last plan inside the declaration imp.
ChangesInside(imp) ==
  {c \in Range(lastPlan) : imp.start <= c.start /\ c.end <= imp.end}

\* The offset of the comma after the default name of imp.
CommaAfterDefault(imp) == Skip(prevText, imp.defEnd)

\* C22: for a declaration with `* as X`: X unused and the default used, the
\* one change erases from after the default's comma (or from the comma) to
\* the end of the clause; X unused and the default unused or absent, it
\* erases the declaration; X used and the default unused, it erases the
\* default name and the comma after it, no more; both used, no change.
C22_NamespaceImportCases ==
  lastOp = "imports" =>
    \A k \in NamespaceImports :
      LET imp == Before.imports[k]
          xUsed == imp.nb.name \in UsedBefore
          dUsed == imp.hasDefault /\ imp.defName \in UsedBefore
          comma == CommaAfterDefault(imp)
      IN IF ~xUsed /\ dUsed
         THEN \E c \in ChangesInside(imp) :
                /\ ChangesInside(imp) = {c}
                /\ c.replacement = <<>>
                /\ comma <= c.start /\ c.start <= imp.nb.start
                /\ c.end = imp.clauseEnd
         ELSE IF ~xUsed
         THEN ChangesInside(imp)
                = {Change(imp.start, imp.end, <<>>)}
         ELSE IF imp.hasDefault /\ ~dUsed
         THEN /\ At(prevText, comma) = ","
              /\ ChangesInside(imp)
                   = {Change(imp.defStart, comma + 1, <<>>)}
         ELSE ChangesInside(imp) = {}

-----------------------------------------------------------------------------
(* The used names *)

\* Offset i of t lies in a line comment.
InComment(t, i) ==
  \E j \in 1..i :
    t[j] \in LineComment /\ \A m \in j..i : t[m] # NL

\* Offset i of t is where the name of a function declaration starts.
IsFunctionName(t, i) ==
  \/ At(t, i - 1) = "function"
  \/ At(t, i - 1) = SP /\ At(t, i - 2) = "function"

\* The offsets where the name of a variable declaration or of a parameter
\* of the tree starts.
BindingNameOffsets(sourceFile) ==
  {sourceFile.vars[k].start : k \in 1..Len(sourceFile.vars)}
  \cup UNION {{sourceFile.funcs[k].params[j].start :
                 j \in 1..Len(sourceFile.funcs[k].params)} :
              k \in 1..Len(sourceFile.funcs)}

\* The offsets of t where an identifier starts that is outside the comments
\* and the top-level import declarations and names no variable, parameter
\* or function declaration.
ReferenceOffsets(t, sourceFile) ==
  {i \in 1..Len(t) :
     /\ IsIdentifierName(t[i]) /\ At(t, i - 1) # "_"
     /\ ~InComment(t, i)
     /\ \A k \in 1..Len(sourceFile.imports) :
          ~(sourceFile.imports[k].start <= i /\ i < sourceFile.imports[k].end)
     /\ i \notin BindingNameOffsets(sourceFile)
     /\ ~IsFunctionName(t, i)}

\* The tag names of the JSX elements of t.
JsxTagNames(t) ==
  IF \E i \in 1..Len(t) : t[i] \in JsxTokens /\ ~InComment(t, i)
  THEN {"div"} ELSE {}

\* C23: a name is in the used names exactly if an identifier with that text
\* stands somewhere outside the top-level import declarations where it is
\* not the name of a variable declaration, a parameter or a function
\* declaration.
C23_UsedNamesAreReferences ==
  lastOp # "none" =>
    UsedBefore
      = {IdentifierText(prevText, i) : i \in ReferenceOffsets(prevText, Before)}
        \cup JsxTagNames(prevText)

\* The text holds an import and a variable whose names are both used: one
\* reference in a function body to the import, one to the variable.
C23_Witness ==
  /\ lastOp = "variables" /\ lastResult = "applied"
  /\ Before.imports # <<>>
  /\ \E k \in 1..Len(Before.imports) : Before.imports[k].defName \in UsedBefore
  /\ \E k \in 1..Len(Before.vars) : Before.vars[k].name \notin UsedBefore
  /\ \E k \in 1..Len(Before.funcs) : Before.funcs[k].name \in UsedBefore

-----------------------------------------------------------------------------
(* The comment policy *)

\* C24: under the prefix and the ignore policy no span of the
\* handle-variables plan comments anything out: none is the span of a
\* variable statement or of a function, and no replacement holds a comment.
C24_CommentOnlyUnderCommentPolicy ==
  (lastOp = "variables" /\ unusedVariableAction # "comment") =>
    \A j \in 1..Len(lastPlan) :
      /\ lastPlan[j].kind \notin {"commentVariable", "commentFunction"}
      /\ \A m \in 1..Len(lastPlan[j].replacement) :
           lastPlan[j].replacement[m] \notin LineComment

\* A plan under the prefix policy for a text with an unused variable and an
\* unused function.
C24_Witness ==
  /\ lastOp = "variables" /\ unusedVariableAction = "prefix"
  /\ lastPlan # <<>>
  /\ unusedVariables(Before, UsedBefore) # <<>>
  /\ findUnusedFunctions(Before, UsedBefore) # <<>>

-----------------------------------------------------------------------------
(* The functions the finder sets apart *)

\* A JSX element stands in the body of fn.
BodyHoldsJsx(t, fn) ==
  /\ fn.bodyStart # 0
  /\ \E i \in fn.bodyStart..(fn.end - 1) :
        t[i] \in JsxTokens /\ ~InComment(t, i)

\* /^[A-Z]/ and /^(on[A-Z]|handle[A-Z])/ on the names of the documents.
NamedLikeComponent(name) == name = "Comp"
NamedLikeHandler(name) == name = "onLoad"

\* C25: a function whose name has no leading underscore, is not used and is
\* not exported is left out of the unused functions exactly if its name
\* starts with an upper-case letter and its body holds a JSX element, or
\* its name starts with on or handle and an upper-case letter.
C25_ComponentsAndHandlersSetApart ==
  lastOp = "variables" =>
    \A k \in 1..Len(Before.funcs) :
      LET fn == Before.funcs[k]
      IN (/\ fn.name # "" /\ ~fn.underscore
          /\ fn.name \notin UsedBefore
          /\ ~IsExportedFunction(prevText, fn)) =>
           (k \notin Range(findUnusedFunctions(Before, UsedBefore))
              <=> \/ NamedLikeComponent(fn.name) /\ BodyHoldsJsx(prevText, fn)
                  \/ NamedLikeHandler(fn.name))

\* The text holds an unreferenced function Comp without JSX in its body,
\* which the finder returns.
C25_Witness ==
  /\ lastOp = "variables"
  /\ \E k \in Range(findUnusedFunctions(Before, UsedBefore)) :
       /\ Before.funcs[k].name = "Comp"
       /\ ~BodyHoldsJsx(prevText, Before.funcs[k])

-----------------------------------------------------------------------------
(* Clean-all and remove-imports *)

\* C26: the text that a clean-all leaves, in which remove-imports ran
\* without error, is a fixpoint of remove-imports: a further pass plans no
\* change.
C26_CleanAllLeavesNoUnusedImport ==
  (/\ lastOp = "cleanAll.handleUnusedVariables" /\ pc = 0
   /\ importsResult \in {"null", "applied"}) =>
    /\ performRemoveUnusedImports(text) = text
    /\ PlannedImportChanges(text) = <<>>

-----------------------------------------------------------------------------
(* What a comment-out span covers *)

\* The variable declarations of the text before that start inside the span
\* s.
VariablesInside(s) ==
  {k \in 1..Len(Before.vars) :
     s.start <= Before.vars[k].start /\ Before.vars[k].start < s.end}

\* C27: a comment-out span hides no binding that is in use: no declarator
\* of a variable statement that is commented out has a used name.
C27_NoUsedDeclaratorCommented ==
  lastOp = "variables" =>
    \A s \in SpansOf("commentVariable") :
      \A k \in VariablesInside(s) : Before.vars[k].name \notin UsedBefore

-----------------------------------------------------------------------------
(* The bindings remove-imports keeps *)

After == createSourceFile(text)

\* The bindings of an import declaration: kind, local name, property name.
Bindings(imp) ==
  (IF imp.hasDefault THEN {<<"default", imp.defName, "">>} ELSE {})
  \cup (IF imp.nb.kind = "namespace" /\ imp.nb.name # ""
        THEN {<<"namespace", imp.nb.name, "">>} ELSE {})
  \cup {<<"named", imp.nb.elements[k].name, imp.nb.elements[k].propertyName>> :
          k \in 1..Len(imp.nb.elements)}

\* C28: every binding of an import declaration whose local name is used is,
\* after remove-imports, still a binding of the declaration with that
\* module specifier, of the same kind and with the same property name.
C28_UsedBindingsStayBound ==
  lastOp = "imports" =>
    \A k \in 1..Len(Before.imports) :
      \A b \in Bindings(Before.imports[k]) :
        b[2] \in UsedBefore =>
          \E j \in 1..Len(After.imports) :
            /\ After.imports[j].moduleSpecifier
                 = Before.imports[k].moduleSpecifier
            /\ b \in Bindings(After.imports[j])

-----------------------------------------------------------------------------
(* The plans of one save *)

\* C29: when a save has queued the plans of both operations and neither is
\* null, no span of the remove-imports plan overlaps a span of the
\* handle-variables plan.
C29_QueuedPlansDisjoint ==
  (/\ lastOp = "save" /\ Len(queued) = 2
   /\ ~queued[1].null /\ ~queued[2].null) =>
    \A c \in Range(queued[1].edit) : \A s \in Range(queued[2].edit) :
      ~Overlaps(c, s)

-----------------------------------------------------------------------------
(* The spans of one remove-imports pass *)

\* The changes of the last plan, by index, that lie in the range of imp.
PlannedInside(imp) ==
  {j \in 1..Len(lastPlan) :
     /\ imp.start <= lastPlan[j].start
     /\ lastPlan[j].start <= lastPlan[j].end
     /\ lastPlan[j].end <= imp.end}

\* The orders in which the changes of the last plan can be taken.
Orders ==
  {p \in [1..Len(lastPlan) -> 1..Len(lastPlan)] :
     \A i, j \in 1..Len(lastPlan) : p[i] = p[j] => i = j}

InOrder(p) == [k \in 1..Len(lastPlan) |-> lastPlan[p[k]]]

\* The change d after the change c has been applied before it: what stands
\* behind c has moved by the difference of the lengths.
ShiftAfter(c, d) ==
  IF d.start >= c.end
  THEN [d EXCEPT !.start = (@ + Len(c.replacement)) - (c.end - c.start),
                 !.end = (@ + Len(c.replacement)) - (c.end - c.start)]
  ELSE d

\* The changes applied one after the other, each at the place its range has
\* by then.
RECURSIVE ApplyShifted(_, _)
ApplyShifted(result, changes) ==
  IF changes = <<>> THEN result
  ELSE ApplyShifted(Splice(result, Head(changes)),
                    [k \in 1..(Len(changes) - 1) |->
                       ShiftAfter(Head(changes), changes[k + 1])])

\* C30 as claimed: splicing the changes into the text in any order gives
\* the text that splicing them in descending start order gives.
C30_AnyOrderOfSplicing ==
  lastOp = "imports" =>
    \A p \in Orders :
      SpliceAll(prevText, InOrder(p))
        = SpliceAll(prevText, SortDescending(lastPlan))

\* C30: at most one change is planned for an import declaration, every
\* change lies in the range of a declaration, no two changes overlap, and
\* splicing them in descending start order gives the text that applying
\* them in any order gives when each is applied at the place its range has
\* by then.
C30_OneSpanPerImportInItsRange ==
  lastOp = "imports" =>
    /\ \A k \in 1..Len(Before.imports) :
         Cardinality(PlannedInside(Before.imports[k])) <= 1
    /\ \A j \in 1..Len(lastPlan) :
         \E k \in 1..Len(Before.imports) :
           j \in PlannedInside(Before.imports[k])
    /\ \A i, j \in 1..Len(lastPlan) :
         i # j => ~Overlaps(lastPlan[i], lastPlan[j])
    /\ \A p \in Orders :
         ApplyShifted(prevText, InOrder(p))
           = SpliceAll(prevText, SortDescending(lastPlan))

\* A pass has planned two changes, of which the first changes the length of
\* the text.
C30_Witness ==
  /\ lastOp = "imports" /\ Len(lastPlan) = 2
  /\ lastPlan[1].start < lastPlan[2].start
  /\ Len(lastPlan[1].replacement) # lastPlan[1].end - lastPlan[1].start

====
